---- MODULE Spec2Model ----
(***************************************************************************)
(* Model of the macro dashboard: the FRED series fetcher with its          *)
(* st.cache_data memoization, the moving-average and year-over-year        *)
(* transforms, and the render loop of the dashboard (src/app.py and        *)
(* src/jsmacro_dashboard_yoy_fixed.py).                                     *)
(*                                                                         *)
(* Floating-point values are modelled as exact rationals plus the IEEE     *)
(* specials NaN and +/-inf; rounding error of binary floating point is     *)
(* outside the model.                                                      *)
(***************************************************************************)
EXTENDS Integers, Sequences, FiniteSets, TLC

VARIABLES
    \* ---- fetch_fred_series applied to one HTTP response (SpecFetch)
    response,    \* the HTTP response handed back by requests.get
    fetched,     \* outcome of the call: returned table or raised error
    \* ---- transforms applied to one table (SpecTransform)
    heap,        \* object store: reference -> pandas object contents
    arg,         \* reference of the caller's input object
    ret,         \* what the transform returned / plotted
    op,          \* which transform has run ("none" before the call)
    snapshot,    \* contents of the caller's input object before the call
    \* ---- one dashboard session (Spec)
    script,      \* which dashboard script the session runs
    pc,          \* "start" | "render" | "fatal" | "done"
    secrets,     \* st.secrets["FRED_API_KEY"] (NoKey when absent)
    environ,     \* os.environ["FRED_API_KEY"] (NoKey when absent)
    api_key,     \* value returned by load_api_key
    start_date,  \* observation start derived from the horizon selectbox
    ma_window,   \* moving-average window of the sidebar (0 when disabled)
    run,         \* number of script runs (render passes) started so far
    idx,         \* position of the render loop in the catalog
    panels,      \* what each processed catalog entry displays in this pass
    cache,       \* st.cache_data store: argument tuple -> pickled table
    gets,        \* HTTP GETs issued in this pass, per series id
    last,        \* the latest call of fetch_fred_series in this pass: its
                 \* arguments, whether an earlier call with them had returned
                 \* a table (seen), the GETs it performed, and how it ended
    firstOk      \* history: table returned by the first successful call per key

vars == <<response, fetched, heap, arg, ret, op, snapshot, script, pc, secrets,
          environ, api_key, start_date, ma_window, run, idx, panels, cache, gets,
          last, firstOk>>

fetchVars == <<response, fetched>>
transformVars == <<heap, arg, ret, op, snapshot>>
sessionVars == <<script, pc, secrets, environ, api_key, start_date, ma_window,
                 run, idx, panels, cache, gets, last, firstOk>>

----------------------------------------------------------------------------
(* Bounds of the model *)

MaxObs == 3        \* observation records in one response body (SpecFetch)
MaxOver == 1       \* characters a response text may exceed the truncation by
MaxRows == 14      \* rows of a table handed to a transform
MaxWindow == 3     \* moving-average windows 1..MaxWindow
MaxZeros == 2      \* rows of a table whose value is zero
MaxSeries == 1     \* distinct series ids of app.py's catalog that are modelled
MaxIndicators == 2 \* distinct series ids of the year-over-year script modelled
MaxRuns == 2       \* script runs (render passes) in one session

(* Program constants *)

HTTP_OK == 200     \* the only status fetch_fred_series accepts
TruncLen == 200    \* response.text[:200] in the error message
Lag == 12          \* pct_change(periods=12)
MinPeriods == 1    \* rolling(..., min_periods=1)

----------------------------------------------------------------------------
(* Floating-point values: exact rationals n/d (d > 0, lowest terms), NaN,  *)
(* and +/-inf (k = "inf", n = sign).                                       *)

Abs(x) == IF x < 0 THEN -x ELSE x

RECURSIVE GCD(_, _)
GCD(a, b) == IF b = 0 THEN a ELSE GCD(b, a % b)

NaN == [k |-> "nan", n |-> 0, d |-> 1]
Inf(sign) == [k |-> "inf", n |-> sign, d |-> 1]

Rat(n, d) ==
    LET g == GCD(Abs(n), Abs(d))
        s == IF d < 0 THEN -1 ELSE 1
    IN  [k |-> "num", n |-> s * (n \div g), d |-> s * (d \div g)]

Num(i) == Rat(i, 1)

IsNaN(x) == x.k = "nan"
IsNum(x) == x.k = "num"
Sign(x) == IF x.n > 0 THEN 1 ELSE IF x.n < 0 THEN -1 ELSE 0

\* IEEE addition / subtraction
FAdd(x, y) ==
    IF IsNaN(x) \/ IsNaN(y) THEN NaN
    ELSE IF x.k = "inf" /\ y.k = "inf" THEN (IF x.n = y.n THEN x ELSE NaN)
    ELSE IF x.k = "inf" THEN x
    ELSE IF y.k = "inf" THEN y
    ELSE Rat(x.n * y.d + y.n * x.d, x.d * y.d)

FNeg(x) == IF IsNaN(x) THEN NaN ELSE [x EXCEPT !.n = -x.n]

FSub(x, y) == FAdd(x, FNeg(y))

\* IEEE multiplication
FMul(x, y) ==
    IF IsNaN(x) \/ IsNaN(y) THEN NaN
    ELSE IF x.k = "inf" \/ y.k = "inf"
         THEN (IF Sign(x) * Sign(y) = 0 THEN NaN ELSE Inf(Sign(x) * Sign(y)))
    ELSE Rat(x.n * y.n, x.d * y.d)

\* IEEE division: x/0 is +/-inf for x # 0 and NaN for 0/0
FDiv(x, y) ==
    IF IsNaN(x) \/ IsNaN(y) THEN NaN
    ELSE IF x.k = "inf" /\ y.k = "inf" THEN NaN
    ELSE IF x.k = "inf" THEN Inf(Sign(x) * (IF y.n < 0 THEN -1 ELSE 1))
    ELSE IF y.k = "inf" THEN Num(0)
    ELSE IF y.n = 0 THEN (IF x.n = 0 THEN NaN ELSE Inf(Sign(x)))
    ELSE Rat(x.n * y.d, x.d * y.n)

----------------------------------------------------------------------------
(* Dates.  A date string "YYYY-MM-DD" is the triple of its fields;          *)
(* pd.to_datetime turns it into a timestamp, modelled as a day ordinal.    *)

DateString(i) == <<2020 + ((i - 1) \div 12), ((i - 1) % 12) + 1, 1>>

to_datetime(s) == (s[1] * 12 + (s[2] - 1)) * 31 + (s[3] - 1)

\* timestamp of the i-th monthly observation (2020-01-01 is the first)
MonthStamp(i) == to_datetime(DateString(i))

----------------------------------------------------------------------------
(* fetch_fred_series: the body of the function, applied to the response of *)
(* its single requests.get.                                                *)

\* value strings of the FRED API: numbers and the "." sentinel
ValueStrings == {"0", "1.0", "1.1", "."}

\* pd.to_numeric(..., errors="coerce")
to_numeric(s) ==
    CASE s = "1.0" -> Num(1)
      [] s = "1.1" -> Rat(11, 10)
      [] s = "0" -> Num(0)
      [] OTHER -> NaN

\* a slip that would keep the coerced NaN rows
dropna_keep(rows) == rows

\* df[["date", "value"]].dropna(): rows with a NaN value are removed
dropna(rows) == SelectSeq(rows, LAMBDA r : ~IsNaN(r.value))

\* response.text[:200]
Truncate(text) ==
    SubSeq(text, 1, IF Len(text) < TruncLen THEN Len(text) ELSE TruncLen)

Returned(df) ==
    [ok |-> TRUE, exc |-> "none", status |-> HTTP_OK, text |-> <<>>, df |-> df]

Raised(exc, status, text) ==
    [ok |-> FALSE, exc |-> exc, status |-> status, text |-> text, df |-> <<>>]

\* the DataFrame built from the observation records (lines 119-122)
ParseObservations(data) ==
    dropna([i \in 1..Len(data) |->
              [date |-> to_datetime(data[i].date),
               value |-> to_numeric(data[i].value)]])

\* a slip that would let redirects and other non-error statuses through
fetch_body_lenient(resp) ==
    IF resp.status >= 400
    THEN Raised("FetchError", resp.status, Truncate(resp.text))
    ELSE LET data == IF resp.has_obs THEN resp.observations ELSE <<>>
         IN  IF data = <<>>
             THEN Raised("NoDataError", 0, <<>>)
             ELSE Returned(ParseObservations(data))

\* "FetchError" is the ValueError of line 111, "NoDataError" that of line 116
fetch_body(resp) ==
    IF resp.status # HTTP_OK
    THEN Raised("FetchError", resp.status, Truncate(resp.text))
    ELSE LET data == IF resp.has_obs THEN resp.observations ELSE <<>>
         IN  IF data = <<>>
             THEN Raised("NoDataError", 0, <<>>)
             ELSE Returned(ParseObservations(data))

----------------------------------------------------------------------------
(* SpecFetch: fetch_fred_series over a bounded family of responses *)

Statuses == {200, 201, 204, 301, 404, 500}

\* a response text of n characters
Text(n) == [i \in 1..n |-> i % 7]

TextLens == {0, TruncLen - 1} \cup (TruncLen .. TruncLen + MaxOver)

ObsLists ==
    UNION {{[i \in 1..n |-> [date |-> DateString(i), value |-> f[i]]] :
              f \in [1..n -> ValueStrings]} : n \in 0..MaxObs}

Responses ==
    {[status |-> s, text |-> Text(n), has_obs |-> TRUE, observations |-> o] :
        s \in Statuses, n \in TextLens, o \in ObsLists}
    \cup {[status |-> s, text |-> Text(0), has_obs |-> FALSE, observations |-> <<>>] :
        s \in Statuses}

NotCalled == Raised("not called", 0, <<>>)

IdleTransform ==
    /\ heap = <<>>
    /\ arg = 0
    /\ ret = 0
    /\ op = 0
    /\ snapshot = 0

NoKey == "<absent>"

IdleSession ==
    /\ script = "none"
    /\ pc = "idle"
    /\ secrets = NoKey
    /\ environ = NoKey
    /\ api_key = NoKey
    /\ start_date = 0
    /\ ma_window = 0
    /\ run = 0
    /\ idx = 0
    /\ panels = <<>>
    /\ cache = <<>>
    /\ gets = <<>>
    /\ last = 0
    /\ firstOk = <<>>

IdleFetch ==
    /\ response = [status |-> 0, text |-> <<>>, has_obs |-> FALSE, observations |-> <<>>]
    /\ fetched = NotCalled

InitFetch ==
    /\ response \in Responses
    /\ fetched = NotCalled
    /\ IdleTransform
    /\ IdleSession

\* one call of fetch_fred_series (cache miss) on the given response
FetchCall ==
    /\ fetched = NotCalled
    /\ fetched' = fetch_body(response)
    /\ UNCHANGED <<response, transformVars, sessionVars>>

NextFetch == FetchCall

SpecFetch == InitFetch /\ [][NextFetch]_vars

----------------------------------------------------------------------------
(* Properties of fetch_fred_series *)

Called == fetched # NotCalled

Observations == IF response.has_obs THEN response.observations ELSE <<>>

IsNumericString(s) == s \in {"0", "1.0", "1.1"}

\* positions of the records whose value is a number
Kept == {i \in 1..Len(Observations) : IsNumericString(Observations[i].value)}

Sentinels == {i \in 1..Len(Observations) : Observations[i].value = "."}

\* the j-th smallest position of Kept
KthKept(j) == CHOOSE i \in Kept : Cardinality({k \in Kept : k <= i}) = j

IsPrefix(p, t) == Len(p) <= Len(t) /\ \A i \in 1..Len(p) : p[i] = t[i]

\* C1: whenever fetch returns successfully the returned table has at least
\* one row; a zero-row result is never returned as a table.
C1_SuccessHasRows == (Called /\ fetched.ok) => Len(fetched.df) >= 1

\* C5: for every response whose status is not 2xx the call fails with a
\* FetchError carrying the status code and a prefix of the body of at most
\* TruncLen characters, whatever the body holds; no table is returned.
C5_NonSuccessStatusRaises ==
    (Called /\ response.status \notin 200..299) =>
        /\ ~fetched.ok
        /\ fetched.exc = "FetchError"
        /\ fetched.status = response.status
        /\ IsPrefix(fetched.text, response.text)
        /\ Len(fetched.text) <= TruncLen
        /\ Len(response.text) >= TruncLen => Len(fetched.text) = TruncLen
        /\ fetched.df = <<>>

\* a redirect whose body is longer than the truncation and carries a
\* parseable observation list ended in the error
C5_Witness ==
    /\ Called
    /\ response.status = 301
    /\ Len(response.text) > TruncLen
    /\ Len(Observations) > 0
    /\ Kept # {}
    /\ fetched.exc = "FetchError"

\* C6: the returned table is exactly the subsequence of records whose value
\* parses as a number, in the order of the response, each with its date and
\* value; sentinel records are dropped, never stored as NaN; with exactly
\* one sentinel record the table has n - 1 rows.
C6_TableIsNumericSubsequence ==
    (Called /\ fetched.ok) =>
        /\ Len(fetched.df) = Cardinality(Kept)
        /\ \A j \in 1..Len(fetched.df) :
              /\ fetched.df[j].date = to_datetime(Observations[KthKept(j)].date)
              /\ fetched.df[j].value = to_numeric(Observations[KthKept(j)].value)
              /\ IsNum(fetched.df[j].value)
        /\ (Cardinality(Sentinels) = 1 /\ Cardinality(Kept) = Len(Observations) - 1)
              => Len(fetched.df) = Len(Observations) - 1

\* three records, the middle one a sentinel: two rows come back
C6_Witness ==
    /\ Called
    /\ fetched.ok
    /\ Len(Observations) = 3
    /\ Sentinels = {2}
    /\ Len(fetched.df) = 2
    /\ fetched.df[2].date = MonthStamp(3)

----------------------------------------------------------------------------
(* pandas objects live in an object store; a reference is an index of it.  *)
(* A DataFrame (or a Series with its index) is its two columns.            *)

Frame(dates, values) == [date |-> dates, value |-> values]

Alloc(h, obj) == [heap |-> Append(h, obj), ref |-> Len(h) + 1]

\* a slip: binding the same object instead of copying it
df_copy_alias(h, r) == [heap |-> h, ref |-> r]

\* df.copy() / series.reset_index(): a new object with the same contents
df_copy(h, r) == Alloc(h, h[r])

\* df[col] = values: assignment into the object the reference names
SetValue(h, r, values) == [h EXCEPT ![r].value = values]

\* pandas' sliding-window mean: remove the observation that left the
\* window, add the new one, emit sum/nobs when nobs >= min_periods
RECURSIVE roll_mean(_, _, _, _, _, _, _)
roll_mean(values, window, minp, i, sum, nobs, out) ==
    IF i > Len(values) THEN out
    ELSE LET leave == i > window /\ ~IsNaN(values[i - window])
             sum1 == IF leave THEN FSub(sum, values[i - window]) ELSE sum
             nobs1 == IF leave THEN nobs - 1 ELSE nobs
             enter == ~IsNaN(values[i])
             sum2 == IF enter THEN FAdd(sum1, values[i]) ELSE sum1
             nobs2 == IF enter THEN nobs1 + 1 ELSE nobs1
             mean == IF nobs2 >= minp /\ nobs2 > 0
                     THEN FDiv(sum2, Num(nobs2)) ELSE NaN
         IN  roll_mean(values, window, minp, i + 1, sum2, nobs2, Append(out, mean))

\* a slip: rolling(window) without min_periods=1 needs a full window
rolling_full(values, window, minp) ==
    roll_mean(values, window, window, 1, Num(0), 0, <<>>)

\* series.rolling(window=window, min_periods=minp).mean()
rolling(values, window, minp) ==
    roll_mean(values, window, minp, 1, Num(0), 0, <<>>)

\* apply_moving_average(df, window): the store afterwards and the
\* reference returned
apply_moving_average(h, df, window) ==
    LET c == df_copy(h, df)
        sma == c.ref
    IN  [heap |-> SetValue(c.heap, sma, rolling(c.heap[sma].value, window, MinPeriods)),
         ref |-> sma]

\* series.shift(periods)
shift(values, periods) ==
    [i \in 1..Len(values) |-> IF i <= periods THEN NaN ELSE values[i - periods]]

\* series.pct_change(periods): values / values.shift(periods) - 1
pct_change(values, periods) ==
    LET prev == shift(values, periods)
    IN  [i \in 1..Len(values) |-> FSub(FDiv(values[i], prev[i]), Num(1))]

\* a slip: month-over-month change
yoy_percent_monthly(values) ==
    LET pc1 == pct_change(values, 1)
    IN  [i \in 1..Len(values) |-> FMul(pc1[i], Num(100))]

\* df['Value'].pct_change(periods=12) * 100
yoy_percent(values) ==
    LET pc12 == pct_change(values, Lag)
    IN  [i \in 1..Len(values) |-> FMul(pc12[i], Num(100))]

\* positions of the rows df.dropna() keeps
NotNaRows(obj) == {i \in 1..Len(obj.value) : ~IsNaN(obj.value[i])}

RECURSIVE TakeRows(_, _, _)
TakeRows(col, keep, i) ==
    IF i > Len(col) THEN <<>>
    ELSE (IF i \in keep THEN <<col[i]>> ELSE <<>>) \o TakeRows(col, keep, i + 1)

\* df.dropna() on a frame: a new object holding the rows without NaN
frame_dropna(obj) ==
    Frame(TakeRows(obj.date, NotNaRows(obj), 1), TakeRows(obj.value, NotNaRows(obj), 1))

NoFrame == Frame(<<>>, <<>>)

\* a plotly figure: the base trace and the optional overlay trace
Figure(base, has_overlay, overlay) ==
    [x |-> base.date, y |-> base.value, has_overlay |-> has_overlay,
     ox |-> overlay.date, oy |-> overlay.value]

NoFigure == Figure(NoFrame, FALSE, NoFrame)

\* plot_series(series, label, apply_yoy) of the year-over-year dashboard
plot_series_yoy(h, series, apply_yoy) ==
    LET c == df_copy(h, series)
        df == c.ref
    IN  IF apply_yoy
        THEN LET h1 == SetValue(c.heap, df, yoy_percent(c.heap[df].value))
                 d == Alloc(h1, frame_dropna(h1[df]))
             IN  [heap |-> d.heap, fig |-> Figure(d.heap[d.ref], FALSE, NoFrame)]
        ELSE [heap |-> c.heap, fig |-> Figure(c.heap[df], FALSE, NoFrame)]

\* plot_series(df, title, moving_avg_window) of app.py; window 0 is None
plot_series(h, df, moving_avg_window) ==
    IF moving_avg_window # 0 /\ moving_avg_window > 1
    THEN LET m == apply_moving_average(h, df, moving_avg_window)
         IN  [heap |-> m.heap, fig |-> Figure(h[df], TRUE, m.heap[m.ref])]
    ELSE [heap |-> h, fig |-> Figure(h[df], FALSE, NoFrame)]

----------------------------------------------------------------------------
(* SpecTransform: the transforms over a bounded family of tables *)

MonthlyDates(n) == [i \in 1..n |-> MonthStamp(i)]

\* a slowly rising monthly series: 1.0 in the first month, 1.1 a year later
BaseValue(i) == Rat(10 * Lag + (i - 1), 10 * Lag)

\* the base series with the rows of `zeros` reported as 0
Table(n, zeros) ==
    Frame(MonthlyDates(n), [i \in 1..n |-> IF i \in zeros THEN Num(0) ELSE BaseValue(i)])

\* thirteen monthly points from 1.0 (2020-01-01) to 1.1 (2021-01-01)
Scenario13 == Table(Lag + 1, {})

InputTables ==
    UNION {{Table(n, z) : z \in {zs \in SUBSET (1..n) : Cardinality(zs) <= MaxZeros}} :
             n \in 0..MaxRows}

NoOp == [name |-> "none", window |-> 0, apply_yoy |-> FALSE]

NoRet == [ref |-> 0, fig |-> NoFigure]

InitTransform ==
    /\ \E t \in InputTables : heap = <<t>> /\ snapshot = t
    /\ arg = 1
    /\ ret = NoRet
    /\ op = NoOp
    /\ IdleFetch
    /\ IdleSession

ApplyMovingAverage ==
    /\ op = NoOp
    /\ \E w \in 1..MaxWindow :
         LET r == apply_moving_average(heap, arg, w)
         IN  /\ heap' = r.heap
             /\ ret' = [ref |-> r.ref, fig |-> NoFigure]
             /\ op' = [name |-> "moving_average", window |-> w, apply_yoy |-> FALSE]
    /\ UNCHANGED <<arg, snapshot, fetchVars, sessionVars>>

PlotSeriesYoY ==
    /\ op = NoOp
    /\ \E y \in BOOLEAN :
         LET r == plot_series_yoy(heap, arg, y)
         IN  /\ heap' = r.heap
             /\ ret' = [ref |-> 0, fig |-> r.fig]
             /\ op' = [name |-> "plot_series_yoy", window |-> 0, apply_yoy |-> y]
    /\ UNCHANGED <<arg, snapshot, fetchVars, sessionVars>>

PlotSeries ==
    /\ op = NoOp
    /\ \E w \in 0..MaxWindow :
         LET r == plot_series(heap, arg, w)
         IN  /\ heap' = r.heap
             /\ ret' = [ref |-> 0, fig |-> r.fig]
             /\ op' = [name |-> "plot_series", window |-> w, apply_yoy |-> FALSE]
    /\ UNCHANGED <<arg, snapshot, fetchVars, sessionVars>>

NextTransform == ApplyMovingAverage \/ PlotSeriesYoY \/ PlotSeries

SpecTransform == InitTransform /\ [][NextTransform]_vars

----------------------------------------------------------------------------
(* Properties of the transforms *)

Input == snapshot

Rows(obj) == Len(obj.value)

RECURSIVE SumRange(_, _, _)
SumRange(values, lo, hi) ==
    IF lo > hi THEN Num(0) ELSE FAdd(values[lo], SumRange(values, lo + 1, hi))

Max(a, b) == IF a > b THEN a ELSE b

\* mean of the input values at rows max(first, i - window + 1)..i
TrailingMean(values, i, window) ==
    LET lo == Max(1, i - window + 1)
    IN  FDiv(SumRange(values, lo, i), Num(i - lo + 1))

\* C8: for every non-empty table and window >= 1, apply_moving_average
\* returns a table with the row count and date sequence of the input whose
\* value at row i is the mean of the input values at rows
\* max(first, i-window+1)..i; window = 1 is the identity.
C8_MovingAverage ==
    (op.name = "moving_average" /\ Rows(Input) >= 1) =>
        LET out == heap[ret.ref]
        IN  /\ Rows(out) = Rows(Input)
            /\ out.date = Input.date
            /\ \A i \in 1..Rows(Input) :
                 out.value[i] = TrailingMean(Input.value, i, op.window)
            /\ op.window = 1 => out = Input

\* a window of 3 over a table longer than the window that holds a zero row
C8_Witness ==
    /\ op.name = "moving_average"
    /\ op.window = 3
    /\ Rows(Input) > 3
    /\ Input.value[2] = Num(0)
    /\ heap[ret.ref].value[3] # Input.value[3]

\* the year-over-year figure of a row: (value[i] / value[i-12] - 1) * 100
YoYValue(values, i) ==
    FMul(FSub(FDiv(values[i], values[i - Lag]), Num(1)), Num(100))

YoYCall == op.name = "plot_series_yoy" /\ op.apply_yoy

\* C7 as stated: the output is exactly the rows with a partner 12 rows
\* earlier, in order, dates unchanged, each carrying the year-over-year
\* figure, so the output has max(0, n - 12) rows (zero values included).
C7_AsStated ==
    YoYCall =>
        /\ Len(ret.fig.x) = Max(0, Rows(Input) - Lag)
        /\ Len(ret.fig.y) = Max(0, Rows(Input) - Lag)
        /\ \A j \in 1..Len(ret.fig.x) :
             /\ ret.fig.x[j] = Input.date[j + Lag]
             /\ ret.fig.y[j] = YoYValue(Input.value, j + Lag)

\* rows with a partner whose own value and partner value are both zero
ZeroOverZero ==
    {i \in (Lag + 1)..Rows(Input) :
        Input.value[i] = Num(0) /\ Input.value[i - Lag] = Num(0)}

\* rows of the input the year-over-year output holds
YoYKept == ((Lag + 1)..Rows(Input)) \ ZeroOverZero

KthYoYKept(j) == CHOOSE i \in YoYKept : Cardinality({k \in YoYKept : k <= i}) = j

\* C7 (amended): the output is the rows with a partner 12 rows earlier,
\* except those whose value and partner are both zero (0/0 is NaN and is
\* dropped), in order and with dates unchanged; a row whose partner is
\* nonzero carries (value[i] / value[i-12] - 1) * 100, a nonzero row over a
\* zero partner is kept with an infinite value; the output has
\* max(0, n - 12) rows minus the zero-over-zero rows, and thirteen monthly
\* points from 1.0 to 1.1 yield the single row (2021-01-01, 10).
C7_YearOverYear ==
    YoYCall =>
        /\ Len(ret.fig.x) = Cardinality(YoYKept)
        /\ Len(ret.fig.y) = Cardinality(YoYKept)
        /\ Cardinality(YoYKept) = Max(0, Rows(Input) - Lag) - Cardinality(ZeroOverZero)
        /\ \A j \in 1..Len(ret.fig.x) :
             LET i == KthYoYKept(j)
             IN  /\ ret.fig.x[j] = Input.date[i]
                 /\ IF Input.value[i - Lag] # Num(0)
                    THEN ret.fig.y[j] = YoYValue(Input.value, i)
                    ELSE ret.fig.y[j].k = "inf"
        /\ Input = Scenario13 =>
             /\ ret.fig.x = <<to_datetime(<<2021, 1, 1>>)>>
             /\ ret.fig.y = <<Num(10)>>

\* fourteen rows whose thirteenth row and its partner are both zero: the
\* thirteenth row was dropped and the fourteenth kept
C7_Witness ==
    /\ YoYCall
    /\ Rows(Input) = Lag + 2
    /\ ZeroOverZero = {Lag + 1}
    /\ ret.fig.x = <<Input.date[Lag + 2]>>
    /\ ret.fig.y = <<YoYValue(Input.value, Lag + 2)>>

\* C9: neither transform mutates its input: after apply_moving_average and
\* after plot_series (both dashboards) the caller's table has the rows,
\* dates and values it had before the call.
C9_InputUnchanged ==
    op.name # "none" => (heap[arg] = snapshot /\ arg = 1)

\* a transform that rewrites the value column has run on a table whose
\* values it changes
C9_Witness ==
    /\ op.name = "moving_average"
    /\ op.window = 2
    /\ Rows(snapshot) >= 2
    /\ heap[ret.ref].value # snapshot.value
    /\ heap[arg] = snapshot

----------------------------------------------------------------------------
(* The dashboards: credential loading, memoized fetching and the render    *)
(* loops of app.py (build_dashboard) and of the year-over-year script.     *)

Truthy(v) == v # NoKey /\ v # ""

\* a slip: returning whatever was found without the `if not key` check
load_api_key_unchecked(sec, env) ==
    [ok |-> TRUE, key |-> IF Truthy(sec) THEN sec ELSE env]

\* load_api_key(): secrets first, then the environment; ValueError when
\* neither holds a non-empty key
load_api_key(sec, env) ==
    LET key == IF Truthy(sec) THEN sec ELSE IF Truthy(env) THEN env ELSE NoKey
    IN  IF ~Truthy(key) THEN [ok |-> FALSE, key |-> NoKey]
        ELSE [ok |-> TRUE, key |-> key]

\* horizon_options of the sidebar: label and int(years * 365.25) days
\* (0 for "Max", which leaves start_date None)
horizon_options ==
    << [label |-> "1 Quarter", days |-> 91],
       [label |-> "1 Year", days |-> 365],
       [label |-> "3 Years", days |-> 1095],
       [label |-> "10 Years", days |-> 3652],
       [label |-> "Max", days |-> 0] >>

\* the horizons a user picks in the model: the default and "Max"
HorizonChoices == {h \in 1..Len(horizon_options) :
                     horizon_options[h].label \in {"1 Year", "Max"}}

\* the sidebar's moving-average setting: disabled, or the slider's default
MaWindows == {0, 4}

\* series_config of app.py, in rendering order
series_config ==
    << [category |-> "Prices", id |-> "CPIAUCSL"],
       [category |-> "Prices", id |-> "PCEPI"],
       [category |-> "Prices", id |-> "CPILFESL"],
       [category |-> "Prices", id |-> "DGORDER"],
       [category |-> "Prices", id |-> "PPIFGS"],
       [category |-> "Flows", id |-> "M2SL"],
       [category |-> "Flows", id |-> "WM2NS"],
       [category |-> "Flows", id |-> "MMMFFAQ027N"],
       [category |-> "Flows", id |-> "RESBALNS"],
       [category |-> "Flows", id |-> "M1SL"],
       [category |-> "Inflation", id |-> "CPILFESL"],
       [category |-> "Inflation", id |-> "CPIAUCSL"],
       [category |-> "Inflation", id |-> "PPIACO"],
       [category |-> "Inflation", id |-> "T5YIEM"],
       [category |-> "Inflation", id |-> "T10YIEM"],
       [category |-> "Growth", id |-> "GDP"],
       [category |-> "Growth", id |-> "GDPC1"],
       [category |-> "Growth", id |-> "PCEC96"],
       [category |-> "Growth", id |-> "GPDIC1"],
       [category |-> "Growth", id |-> "GCECA"],
       [category |-> "Expectations", id |-> "UMCSENT"],
       [category |-> "Expectations", id |-> "UMCSENTM"],
       [category |-> "Expectations", id |-> "NAPM"],
       [category |-> "Expectations", id |-> "UMRTXNS"],
       [category |-> "Expectations", id |-> "T10Y2Y"] >>

\* sections of the year-over-year script with yoy_transform_series folded
\* in as the yoy flag of each indicator
sections ==
    << [category |-> "Growth & Activity", id |-> "A191RL1Q225SBEA", yoy |-> FALSE],
       [category |-> "Growth & Activity", id |-> "RSAFS", yoy |-> TRUE],
       [category |-> "Growth & Activity", id |-> "INDPRO", yoy |-> TRUE],
       [category |-> "Growth & Activity", id |-> "TTLCONS", yoy |-> TRUE],
       [category |-> "Labor Market", id |-> "UNRATE", yoy |-> FALSE],
       [category |-> "Labor Market", id |-> "JTSJOL", yoy |-> FALSE],
       [category |-> "Labor Market", id |-> "ICSA", yoy |-> FALSE],
       [category |-> "Labor Market", id |-> "CIVPART", yoy |-> FALSE],
       [category |-> "Inflation & Prices", id |-> "CPIAUCSL", yoy |-> TRUE],
       [category |-> "Inflation & Prices", id |-> "PCEPILFE", yoy |-> TRUE],
       [category |-> "Inflation & Prices", id |-> "CES0500000003", yoy |-> TRUE],
       [category |-> "Inflation & Prices", id |-> "CUSR0000SEHC", yoy |-> TRUE],
       [category |-> "Monetary Policy", id |-> "FEDFUNDS", yoy |-> FALSE],
       [category |-> "Monetary Policy", id |-> "WALCL", yoy |-> FALSE],
       [category |-> "Monetary Policy", id |-> "SOFR", yoy |-> FALSE],
       [category |-> "Monetary Policy", id |-> "RRPONTSYD", yoy |-> FALSE],
       [category |-> "Market Rates", id |-> "GS10", yoy |-> FALSE],
       [category |-> "Market Rates", id |-> "GS2", yoy |-> FALSE],
       [category |-> "Market Rates", id |-> "T10Y2Y", yoy |-> FALSE],
       [category |-> "Market Rates", id |-> "DAAA", yoy |-> FALSE],
       [category |-> "Business Sentiment", id |-> "USSLIND", yoy |-> FALSE],
       [category |-> "Business Sentiment", id |-> "UMCSENT", yoy |-> FALSE] >>

\* the ids modelled: the first n distinct ids of a configuration
ModelledIds(config, n) ==
    {config[i].id : i \in {k \in 1..Len(config) :
        Cardinality({config[j].id : j \in 1..k}) <= n}}

\* the entries of a configuration the render loop visits in the model:
\* every entry, in order, whose series id is modelled
Modelled(config, n) ==
    SelectSeq(config, LAMBDA e : e.id \in ModelledIds(config, n))

Scripts == {"app", "yoy"}

AppCatalog == Modelled(series_config, MaxSeries)

YoYCatalog == Modelled(sections, MaxIndicators)

\* the catalog of the script that runs
Catalog == IF script = "app" THEN AppCatalog ELSE YoYCatalog

Ids(catalog) == {catalog[i].id : i \in 1..Len(catalog)}

AppIds == Ids(AppCatalog)

YoYIds == Ids(YoYCatalog)

CatalogIds == IF script = "app" THEN AppIds ELSE YoYIds

\* datetime.date.today()
Today == to_datetime(<<2021, 1, 1>>)

\* the argument tuple st.cache_data hashes
CacheKey(sid, key, start, end) ==
    [series_id |-> sid, api_key |-> key, start |-> start, end |-> end]

\* a slip: the decorator left off, every call goes to the network
fetch_fred_series_unmemoized(c, key, resp) ==
    [cache |-> c, result |-> fetch_body(resp), requests |-> 1]

\* a slip: memoizing the outcome of a failed call as an empty table
fetch_fred_series_memo_failures(c, key, resp) ==
    IF key \in DOMAIN c
    THEN [cache |-> c, result |-> Returned(c[key]), requests |-> 0]
    ELSE LET r == fetch_body(resp)
         IN  [cache |-> (key :> r.df) @@ c, result |-> r, requests |-> 1]

\* @st.cache_data fetch_fred_series: a stored value is handed back as a
\* copy without running the body; otherwise the body runs (one GET) and
\* its return value is stored; an exception stores nothing.  `requests`
\* counts the HTTP GETs the call performed.
fetch_fred_series(c, key, resp) ==
    IF key \in DOMAIN c
    THEN [cache |-> c, result |-> Returned(c[key]), requests |-> 0]
    ELSE LET r == fetch_body(resp)
         IN  [cache |-> IF r.ok THEN (key :> r.df) @@ c ELSE c,
              result |-> r, requests |-> 1]

\* the columns of a table of rows
AsFrame(rows) ==
    Frame([i \in 1..Len(rows) |-> rows[i].date], [i \in 1..Len(rows) |-> rows[i].value])

\* a slip: `except ValueError` instead of `except Exception`
Caught_ValueErrorOnly(exc) == exc \in {"FetchError", "NoDataError"}

\* `except Exception`: every exception of the panel body is caught
Caught(exc) == TRUE

Observation(i, v) == [date |-> DateString(i), value |-> v]

\* what the remote API answers in a session
SessionResponses ==
    { [status |-> 500, text |-> Text(0), has_obs |-> FALSE, observations |-> <<>>],
      [status |-> HTTP_OK, text |-> Text(0), has_obs |-> TRUE, observations |-> <<>>],
      [status |-> HTTP_OK, text |-> Text(0), has_obs |-> TRUE,
       observations |-> <<Observation(1, ".")>>],
      [status |-> HTTP_OK, text |-> Text(0), has_obs |-> TRUE,
       observations |-> <<Observation(1, "1.0"), Observation(2, "."), Observation(3, "1.1")>>] }

\* what fred.get_series hands back: an exception, None, or a Series
GetSeriesOutcomes ==
    { [raised |-> TRUE, none |-> FALSE, series |-> NoFrame],
      [raised |-> FALSE, none |-> TRUE, series |-> NoFrame],
      [raised |-> FALSE, none |-> FALSE, series |-> NoFrame],
      [raised |-> FALSE, none |-> FALSE, series |-> Table(2, {})],
      [raised |-> FALSE, none |-> FALSE, series |-> Scenario13] }

NoCall ==
    [called |-> FALSE, key |-> CacheKey("", NoKey, 0, 0), seen |-> FALSE,
     requests |-> 0, ok |-> FALSE, exc |-> "none", df |-> <<>>]

Chart(entry, fig) == [id |-> entry.id, kind |-> "chart", exc |-> "none", fig |-> fig]

ErrorBox(entry, exc) == [id |-> entry.id, kind |-> "error", exc |-> exc, fig |-> NoFigure]

Init ==
    /\ script \in Scripts
    /\ pc = "start"
    /\ secrets \in {NoKey, "", "secret-key"}
    /\ environ \in {NoKey, "env-key"}
    /\ script = "yoy" => (secrets = NoKey /\ environ = NoKey)
    /\ api_key = NoKey
    /\ start_date = 0
    /\ ma_window = 0
    /\ run = 0
    /\ idx = 0
    /\ panels = <<>>
    /\ cache = <<>>
    /\ gets = [sid \in CatalogIds |-> 0]
    /\ last = NoCall
    /\ firstOk = <<>>
    /\ IdleFetch
    /\ IdleTransform

\* build_dashboard up to the render loop (lines 175-252): the credential
\* check, then the sidebar's horizon and moving-average settings
StartRun ==
    /\ script = "app"
    /\ pc = "start"
    /\ run' = run + 1
    /\ LET k == load_api_key(secrets, environ)
       IN  IF ~k.ok
           THEN /\ pc' = "fatal"
                /\ UNCHANGED <<api_key, start_date, ma_window, idx>>
           ELSE /\ pc' = "render"
                /\ api_key' = k.key
                /\ \E h \in HorizonChoices :
                     start_date' = IF horizon_options[h].days = 0 THEN 0
                                   ELSE Today - horizon_options[h].days
                /\ ma_window' \in MaWindows
                /\ idx' = 1
    /\ panels' = <<>>
    /\ gets' = [sid \in CatalogIds |-> 0]
    /\ last' = NoCall
    /\ UNCHANGED <<script, secrets, environ, cache, firstOk, fetchVars, transformVars>>

\* the end of one iteration of a render loop
Advance ==
    /\ idx' = idx + 1
    /\ pc' = IF idx = Len(Catalog) THEN "done" ELSE "render"

\* one iteration of the render loop of build_dashboard (lines 260-269)
RenderPanel ==
    /\ script = "app"
    /\ pc = "render"
    /\ LET entry == Catalog[idx]
           key == CacheKey(entry.id, api_key, start_date, Today)
       IN  \E resp \in SessionResponses, chart_ok \in BOOLEAN :
             LET m == fetch_fred_series(cache, key, resp)
                 r == m.result
                 exc == IF ~r.ok THEN r.exc ELSE IF ~chart_ok THEN "PlotError" ELSE "none"
                 fig == plot_series(<<AsFrame(r.df)>>, 1, ma_window).fig
             IN  /\ cache' = m.cache
                 /\ gets' = [gets EXCEPT ![entry.id] = @ + m.requests]
                 /\ last' = [called |-> TRUE, key |-> key, seen |-> key \in DOMAIN firstOk,
                             requests |-> m.requests, ok |-> r.ok, exc |-> r.exc,
                             df |-> r.df]
                 /\ firstOk' = IF r.ok /\ key \notin DOMAIN firstOk
                               THEN (key :> r.df) @@ firstOk ELSE firstOk
                 /\ IF exc = "none"
                    THEN panels' = Append(panels, Chart(entry, fig)) /\ Advance
                    ELSE IF Caught(exc)
                    THEN panels' = Append(panels, ErrorBox(entry, exc)) /\ Advance
                    ELSE pc' = "crashed" /\ UNCHANGED <<panels, idx>>
    /\ UNCHANGED <<script, secrets, environ, api_key, start_date, ma_window, run,
                   fetchVars, transformVars>>

\* the year-over-year script up to its render loop (lines 8-110); the
\* credential is a literal of the script
StartYoY ==
    /\ script = "yoy"
    /\ pc = "start"
    /\ run' = run + 1
    /\ pc' = "render"
    /\ idx' = 1
    /\ panels' = <<>>
    /\ UNCHANGED <<script, secrets, environ, api_key, start_date, ma_window, cache,
                   gets, last, firstOk, fetchVars, transformVars>>

\* one iteration of the render loop of the year-over-year script
\* (lines 115-127)
RenderIndicator ==
    /\ script = "yoy"
    /\ pc = "render"
    /\ LET entry == Catalog[idx]
       IN  \E got \in GetSeriesOutcomes, chart_ok \in BOOLEAN :
             LET empty == got.none \/ Rows(got.series) = 0
                 exc == IF got.raised THEN "FetchError"
                        ELSE IF empty THEN "NoDataError"
                        ELSE IF ~chart_ok THEN "PlotError" ELSE "none"
                 fig == plot_series_yoy(<<got.series>>, 1, entry.yoy).fig
             IN  /\ gets' = [gets EXCEPT ![entry.id] = @ + 1]
                 /\ IF exc = "none"
                    THEN panels' = Append(panels, Chart(entry, fig)) /\ Advance
                    ELSE IF Caught(exc)
                    THEN panels' = Append(panels, ErrorBox(entry, exc)) /\ Advance
                    ELSE pc' = "crashed" /\ UNCHANGED <<panels, idx>>
    /\ UNCHANGED <<script, secrets, environ, api_key, start_date, ma_window, run,
                   cache, last, firstOk, fetchVars, transformVars>>

\* Streamlit runs the script again (a widget changed, the page reloaded);
\* the st.cache_data store outlives the run
Rerun ==
    /\ pc \in {"done", "fatal"}
    /\ run < MaxRuns
    /\ pc' = "start"
    /\ UNCHANGED <<script, secrets, environ, api_key, start_date, ma_window, run,
                   idx, panels, cache, gets, last, firstOk, fetchVars, transformVars>>

Next == StartRun \/ RenderPanel \/ StartYoY \/ RenderIndicator \/ Rerun

Spec == Init /\ [][Next]_vars

----------------------------------------------------------------------------
(* Properties of the dashboards *)

FetchFailures == {"FetchError", "NoDataError"}

\* C4: with the credential absent from the secrets and from the
\* environment, startup fails with the configuration error and no series
\* fetch (no HTTP request) is issued in that run; the failure ends the
\* whole run and is not shown as a per-panel error.
C4_NoCredentialNoFetch ==
    (script = "app" /\ ~Truthy(secrets) /\ ~Truthy(environ)) =>
        /\ pc \in {"start", "fatal"}
        /\ (run >= 1 /\ pc # "start") => pc = "fatal"
        /\ \A sid \in CatalogIds : gets[sid] = 0
        /\ ~last.called
        /\ panels = <<>>
        /\ DOMAIN cache = {}
        /\ api_key = NoKey

\* an empty secret and no environment variable: the run after a rerun
\* ended fatally as well
C4_Witness ==
    /\ script = "app"
    /\ secrets = ""
    /\ environ = NoKey
    /\ pc = "fatal"
    /\ run = 2

\* C3: in a render pass every catalog entry is processed once, in order,
\* and ends in exactly one outcome, a chart or an inline error of its own
\* panel, whatever the outcomes of the other entries; no failure aborts
\* the pass or keeps a later entry from being processed.
C3_EveryPanelOneOutcome ==
    /\ pc # "crashed"
    /\ pc \in {"render", "done"} =>
         /\ Len(panels) = idx - 1
         /\ \A i \in 1..Len(panels) :
              /\ panels[i].id = Catalog[i].id
              /\ panels[i].kind \in {"chart", "error"}
              /\ panels[i].kind = "chart" <=> panels[i].exc = "none"
         /\ pc = "done" <=> Len(panels) = Len(Catalog)
         /\ pc = "render" => (idx <= Len(Catalog) /\ ENABLED (RenderPanel \/ RenderIndicator))

\* the first panel failed to fetch; the second was fetched with a new
\* request and rendered, and the pass completed
C3_Witness ==
    /\ script = "app"
    /\ pc = "done"
    /\ Len(panels) = Len(Catalog)
    /\ panels[1].exc = "FetchError"
    /\ panels[2].kind = "chart"
    /\ gets[panels[2].id] = 2

\* the latest call repeated the arguments of an earlier call that had
\* returned a table
RepeatedCall == script = "app" /\ last.called /\ last.seen

\* such a call returns a value-equal table and performs no request
RepeatIsCacheHit ==
    RepeatedCall =>
        /\ last.ok
        /\ last.df = firstOk[last.key]
        /\ last.requests = 0

\* position in this pass of the first panel of a series
FirstPanel(sid) ==
    CHOOSE i \in 1..Len(panels) :
        panels[i].id = sid /\ \A j \in 1..(i - 1) : panels[j].id # sid

\* the first fetch of the series in this pass returned a table
FirstFetchReturned(sid) ==
    /\ \E i \in 1..Len(panels) : panels[i].id = sid
    /\ panels[FirstPanel(sid)].exc \notin FetchFailures

\* C2 as stated: a call that repeats the arguments of a call that returned
\* a table returns a value-equal table without a request, and in one render
\* pass a series that appears in two categories causes at most one GET.
C2_AsStated ==
    /\ RepeatIsCacheHit
    /\ script = "app" => \A sid \in CatalogIds : gets[sid] <= 1

\* C2 (amended): a call that repeats the arguments of a call that returned
\* a table returns a value-equal table without a request, and in one render
\* pass a series that appears in two categories causes at most one GET
\* when its first fetch in the pass returns a table.
C2_MemoizedRepeat ==
    /\ RepeatIsCacheHit
    /\ script = "app" =>
         \A sid \in CatalogIds : FirstFetchReturned(sid) => gets[sid] <= 1

\* in the first pass the second panel of a series was served the table of
\* the first one, with one GET in all
C2_Witness ==
    /\ RepeatedCall
    /\ run = 1
    /\ Len(panels) = 2
    /\ panels[1].id = panels[2].id
    /\ Len(last.df) >= 1
    /\ last.requests = 0
    /\ gets[last.key.series_id] = 1

\* a step of the render loop of app.py: one call of fetch_fred_series
FetchStep == script = "app" /\ pc = "render" /\ last'.called /\ idx' = idx + 1

\* C10: a failed fetch is never memoized: a call that raises leaves the
\* cache as it was, a call whose arguments are not in the cache issues a
\* GET (so a call after a failure fetches again), and the cache holds only
\* tables that a successful call returned.
C10_FailureNotMemoized ==
    /\ [][(FetchStep /\ ~last'.ok) =>
             (cache' = cache /\ last'.key \notin DOMAIN cache' /\ last'.requests = 1)]_vars
    /\ [][(FetchStep /\ last'.key \notin DOMAIN cache) => last'.requests = 1]_vars
    /\ [](\A k \in DOMAIN cache : k \in DOMAIN firstOk /\ cache[k] = firstOk[k])

\* both panels of a series failed in one pass, each with its own GET, and
\* nothing was stored
C10_Witness ==
    /\ script = "app"
    /\ run = 1
    /\ Len(panels) = 2
    /\ panels[1].exc = "NoDataError"
    /\ panels[2].exc = "FetchError"
    /\ gets[panels[2].id] = 2
    /\ DOMAIN cache = {}

====
